---- MODULE Spec2Model ----
(***************************************************************************)
(* Model of the update ingestion core of max-bot-api-client-go:            *)
(*   - bytesToProperUpdate / processMessageAttachments /                   *)
(*     bytesToProperAttachment (api.go), the type-dispatch decoder;        *)
(*   - client.requestReader (client code in debugs.go), getUpdates and     *)
(*     getUpdatesWithRetry (api.go), one long-poll request and its retry   *)
(*     sequence;                                                           *)
(*   - the goroutine started by GetUpdates (api.go), the retrieval loop    *)
(*     that feeds the buffered channel ch;                                 *)
(*   - the handler returned by GetHandler (api.go), which feeds the        *)
(*     channel it was given.                                               *)
(* The loop is cut at its blocking points: the outer select, the HTTP      *)
(* round trip, the backoff select and the send select. A call of the       *)
(* handler touches its channel in one non-blocking select and is one step. *)
(* Spec runs the loop, HookSpec the handler, CallSpec the constructors and *)
(* the decoding functions on their own, IntakeSpec the loop or the         *)
(* handler, ManySpec calls of the handler in progress side by side.        *)
(***************************************************************************)
EXTENDS Integers, Sequences, FiniteSets, TLC

\* ------------------------------------------------------------------ bounds
\* capacity of the channel made by GetUpdates (100 in the source, scaled down)
QueueCap == 1
\* most raw updates one response carries (the limit parameter, scaled down)
MaxBatchLen == 2
\* raw updates the endpoint hands out over one run
MaxServed == 2
\* largest marker value the endpoint reports
MaxMarker == 1
\* capacity of the channel given to GetHandler
HookCap == 2
\* most attachments one message body carries
MaxAtts == 2
\* requests the server hands to the handler over one run
MaxRequests == 3

\* --------------------------------------------------------------- constants
\* a retry sequence of one attempt more
maxRetries_four == 3 + 1

maxRetries == 3

\* a nil error, a nil slice element, an absent value
Nil == "nil"

\* a nil schemes.UpdateInterface
NilUpdate == [variant |-> "nil"]

\* a nil error value of the client
NoError == [type |-> "nil", at |-> "nil"]

\* a *int64: <<>> is nil, <<v>> points to v
Ptr(v) == << v >>
NilPtr == << >>

\* ------------------------------------------------------------------ decoder
\* updateTypeMap with the constructors of two entries exchanged
updateTypeMap_crossed ==
    ("message_callback" :> "MessageCallbackUpdate") @@
    ("message_created" :> "MessageCreatedUpdate") @@
    ("message_removed" :> "MessageRemovedUpdate") @@
    ("message_edited" :> "MessageEditedUpdate") @@
    ("bot_added" :> "BotRemovedFromChatUpdate") @@
    ("bot_removed" :> "BotAddedToChatUpdate") @@
    ("user_added" :> "UserAddedToChatUpdate") @@
    ("user_removed" :> "UserRemovedFromChatUpdate") @@
    ("bot_started" :> "BotStartedUpdate") @@
    ("chat_title_changed" :> "ChatTitleChangedUpdate")

\* updateTypeMap: update type -> the struct its constructor makes
updateTypeMap ==
    ("message_callback" :> "MessageCallbackUpdate") @@
    ("message_created" :> "MessageCreatedUpdate") @@
    ("message_removed" :> "MessageRemovedUpdate") @@
    ("message_edited" :> "MessageEditedUpdate") @@
    ("bot_added" :> "BotAddedToChatUpdate") @@
    ("bot_removed" :> "BotRemovedFromChatUpdate") @@
    ("user_added" :> "UserAddedToChatUpdate") @@
    ("user_removed" :> "UserRemovedFromChatUpdate") @@
    ("bot_started" :> "BotStartedUpdate") @@
    ("chat_title_changed" :> "ChatTitleChangedUpdate")

\* keys of updateTypeMap
UpdateTypes == DOMAIN updateTypeMap

\* attachmentTypeMap: attachment type -> the struct its constructor makes
attachmentTypeMap ==
    ("audio" :> "AudioAttachment") @@
    ("contact" :> "ContactAttachment") @@
    ("file" :> "FileAttachment") @@
    ("image" :> "PhotoAttachment") @@
    ("inline_keyboard" :> "InlineKeyboardAttachment") @@
    ("location" :> "LocationAttachment") @@
    ("share" :> "ShareAttachment") @@
    ("sticker" :> "StickerAttachment") @@
    ("video" :> "VideoAttachment")

\* keys of attachmentTypeMap
AttachmentTypes == DOMAIN attachmentTypeMap

\* A raw payload is its bytes seen through encoding/json: json says whether the
\* bytes are well-formed JSON ("malformed" fails every Unmarshal), whether the
\* envelope decodes but a variant field has the wrong JSON type ("mistyped"
\* fails only the typed Unmarshal), or all is well ("wellformed"). The type tag
\* is the envelope's, fields stands for everything else the payload says, and
\* an update's attachments are the raw elements of message.body.attachments.
RawAtt(j, t, f) == [json |-> j, type |-> t, fields |-> f]
RawUpd(j, t, f, atts) ==
    [json |-> j, update_type |-> t, fields |-> f, attachments |-> atts]

\* the update types whose struct has a message body (schemes.MessageBody)
BodyTypes == {"message_created", "message_edited"}

\* json.Unmarshal(data, update) into the struct the constructor made: the
\* struct takes the type tag and the fields of the payload; a message body
\* keeps the raw attachments and starts with no resolved one
UnmarshalUpdate(data, struct, debugRaw) ==
    [variant |-> struct,
     update_type |-> data.update_type,
     fields |-> data.fields,
     raw_attachments |-> IF data.update_type \in BodyTypes
                         THEN data.attachments ELSE << >>,
     attachments |-> << >>,
     debug_raw |-> debugRaw]

\* json.Unmarshal(data, attachment) into a variant struct
UnmarshalAttachment(data, struct) ==
    [variant |-> struct, type |-> data.type, fields |-> data.fields]

\* json.Unmarshal(data, baseAttachment): the fallback schemes.Attachment keeps
\* the tag and the bytes it was decoded from
UnmarshalBaseAttachment(data) ==
    [variant |-> "Attachment", type |-> data.type, fields |-> data.fields]

\* a nil schemes.AttachmentInterface
NilAttachment == [variant |-> "nil"]

\* bytesToProperAttachment that refuses a type it has no constructor for
bytesToProperAttachment_strict(data) ==
    IF data.json = "malformed"
    THEN [att |-> NilAttachment, err |-> "failed to unmarshal base attachment", arg |-> Nil]
    ELSE IF data.type \notin DOMAIN attachmentTypeMap
    THEN [att |-> NilAttachment, err |-> "unknown attachment type", arg |-> data.type]
    ELSE IF data.json = "mistyped"
    THEN [att |-> NilAttachment, err |-> "failed to unmarshal attachment of type",
          arg |-> data.type]
    ELSE [att |-> UnmarshalAttachment(data, attachmentTypeMap[data.type]),
          err |-> Nil, arg |-> Nil]

\* bytesToProperAttachment: [att, err, arg], arg what the error message names
bytesToProperAttachment(data) ==
    IF data.json = "malformed"
    THEN [att |-> NilAttachment, err |-> "failed to unmarshal base attachment", arg |-> Nil]
    ELSE IF data.type \notin DOMAIN attachmentTypeMap
    THEN [att |-> UnmarshalBaseAttachment(data), err |-> Nil, arg |-> Nil]
    ELSE IF data.json = "mistyped"
    THEN [att |-> NilAttachment, err |-> "failed to unmarshal attachment of type",
          arg |-> data.type]
    ELSE [att |-> UnmarshalAttachment(data, attachmentTypeMap[data.type]),
          err |-> Nil, arg |-> Nil]

\* the range loop putting each attachment in front of the ones before it
RECURSIVE resolveFrom_reversed(_, _, _)
resolveFrom_reversed(raws, i, acc) ==
    IF i > Len(raws)
    THEN [atts |-> acc, err |-> Nil]
    ELSE LET r == bytesToProperAttachment(raws[i])
         IN  IF r.err # Nil
             THEN [atts |-> acc, err |-> "failed to process attachment"]
             ELSE resolveFrom_reversed(raws, i + 1, << r.att >> \o acc)

\* the range loop passing over an attachment that fails to decode
RECURSIVE resolveFrom_skipping(_, _, _)
resolveFrom_skipping(raws, i, acc) ==
    IF i > Len(raws)
    THEN [atts |-> acc, err |-> Nil]
    ELSE LET r == bytesToProperAttachment(raws[i])
         IN  IF r.err # Nil
             THEN resolveFrom_skipping(raws, i + 1, acc)
             ELSE resolveFrom_skipping(raws, i + 1, Append(acc, r.att))

\* the range loop of processMessageAttachments over RawAttachments, from
\* position i with the attachments resolved so far: [atts, err]
RECURSIVE resolveFrom(_, _, _)
resolveFrom(raws, i, acc) ==
    IF i > Len(raws)
    THEN [atts |-> acc, err |-> Nil]
    ELSE LET r == bytesToProperAttachment(raws[i])
         IN  IF r.err # Nil
             THEN [atts |-> acc, err |-> "failed to process attachment"]
             ELSE resolveFrom(raws, i + 1, Append(acc, r.att))

\* processMessageAttachments: [update, err]
processMessageAttachments(update) ==
    IF update.variant \in {"MessageCreatedUpdate", "MessageEditedUpdate"}
    THEN LET r == resolveFrom(update.raw_attachments, 1, update.attachments)
         IN  [update |-> [update EXCEPT !.attachments = r.atts], err |-> r.err]
    ELSE [update |-> update, err |-> Nil]

\* bytesToProperUpdate that answers an unknown type with the bare update
bytesToProperUpdateDebug_generic(data, dbg) ==
    IF data.json = "malformed"
    THEN [update |-> NilUpdate, err |-> "failed to unmarshal base update", arg |-> Nil]
    ELSE IF data.update_type \notin DOMAIN updateTypeMap
    THEN [update |-> [variant |-> "Update", update_type |-> data.update_type],
          err |-> Nil, arg |-> Nil]
    ELSE IF data.json = "mistyped"
    THEN [update |-> NilUpdate, err |-> "failed to unmarshal update of type",
          arg |-> data.update_type]
    ELSE LET debugRaw == IF dbg THEN << data >> ELSE << >>
             u == UnmarshalUpdate(data, updateTypeMap[data.update_type], debugRaw)
             r == processMessageAttachments(u)
         IN  IF r.err # Nil
             THEN [update |-> NilUpdate, err |-> "failed to process message attachments",
                   arg |-> Nil]
             ELSE [update |-> r.update, err |-> Nil, arg |-> Nil]

\* bytesToProperUpdate with a.debug given: [update, err, arg], arg what the
\* error message names
bytesToProperUpdateDebug(data, dbg) ==
    IF data.json = "malformed"
    THEN [update |-> NilUpdate, err |-> "failed to unmarshal base update", arg |-> Nil]
    ELSE IF data.update_type \notin DOMAIN updateTypeMap
    THEN [update |-> NilUpdate, err |-> "unknown update type", arg |-> data.update_type]
    ELSE IF data.json = "mistyped"
    THEN [update |-> NilUpdate, err |-> "failed to unmarshal update of type",
          arg |-> data.update_type]
    ELSE LET debugRaw == IF dbg THEN << data >> ELSE << >>
             u == UnmarshalUpdate(data, updateTypeMap[data.update_type], debugRaw)
             r == processMessageAttachments(u)
         IN  IF r.err # Nil
             THEN [update |-> NilUpdate, err |-> "failed to process message attachments",
                   arg |-> Nil]
             ELSE [update |-> r.update, err |-> Nil, arg |-> Nil]

\* ------------------------------------------------------------- one request
\* errLongPollTimeout: a *TimeoutError allocated once at package level
errLongPollTimeout == [type |-> "TimeoutError", at |-> "errLongPollTimeout"]

\* createTimeoutError: a *TimeoutError allocated by the call
createTimeoutError == [type |-> "TimeoutError", at |-> "createTimeoutError"]

\* &schemes.UpdateList{}
EmptyUpdateList == [Updates |-> <<>>, Marker |-> NilPtr]

\* what httpClient.Do can come back with: a 200 response ("ok"), its own
\* timeout, a transport error (a cancelled ctx included), a non-200 status
NetOutcomes == {"ok", "timeout", "neterr", "apierr"}

\* a response body: bytes that are a JSON update list, or are not
Body(j, list) == [json |-> j, list |-> list]
NoBody == Body("none", EmptyUpdateList)

\* client.requestReader after httpClient.Do: [body, err]
requestReader(net, body) ==
    CASE net = "timeout" -> [body |-> NoBody, err |-> createTimeoutError]
      [] net = "neterr"  -> [body |-> NoBody, err |-> [type |-> "NetworkError", at |-> "requestReader"]]
      [] net = "apierr"  -> [body |-> NoBody, err |-> [type |-> "APIError", at |-> "requestReader"]]
      [] OTHER           -> [body |-> body, err |-> NoError]

\* getUpdates after client.request: [list, err]; err == errLongPollTimeout
\* compares two pointers
getUpdates(net, body) ==
    LET r == requestReader(net, body)
    IN  IF r.err # NoError
        THEN IF r.err = errLongPollTimeout
             THEN [list |-> EmptyUpdateList, err |-> Nil]
             ELSE [list |-> EmptyUpdateList, err |-> "failed to get updates"]
        ELSE IF r.body.json # "wellformed"
        THEN [list |-> EmptyUpdateList, err |-> "failed to unmarshal updates"]
        ELSE [list |-> r.body.list, err |-> Nil]

\* the marker query parameter getUpdates sets: only a positive one is sent
MarkerParam(m) == IF m > 0 THEN Ptr(m) ELSE NilPtr

\* retryWait of getUpdatesWithRetry in seconds: 1 << attempt
RECURSIVE retryWaitOf(_)
retryWaitOf(a) == IF a = 0 THEN 1 ELSE 2 * retryWaitOf(a - 1)

\* -------------------------------------------------------------------- state
VARIABLES
    pc,          \* where the goroutine of GetUpdates is blocked
    ctxDone,     \* ctx.Done() is closed
    tickC,       \* ticker.C holds a tick (a channel of capacity 1)
    marker,      \* the local variable marker of the goroutine
    attempt,     \* loop variable of getUpdatesWithRetry
    retryWait,   \* the wait of the pending time.After, in seconds
    waits,       \* waits that elapsed in the current call of getUpdatesWithRetry
    sent,        \* marker parameter of the latest request
    outcome,     \* how the round trip of the latest request ended
    updateList,  \* the list the latest call of getUpdatesWithRetry returned
    idx,         \* position of the range loop in updateList.Updates
    ch,          \* the buffered channel returned by GetUpdates
    closed,      \* close(ch) has run
    retrieved,   \* raw updates of every batch received, in order of arrival
    consumed,    \* what the consumer has received from ch, in order
    retryErr,    \* the error the latest call of getUpdatesWithRetry returned
    debug,       \* the field debug of Api
    updates,     \* the channel GetHandler was given
    handled,     \* the latest request the handler served, with its response
    requests,    \* the requests being served side by side, in order of arrival
    received,    \* how many updates the owner of updates has received
    input,       \* the bytes handed to a decoding function
    output       \* what the decoding function returned

\* the state of the goroutine of GetUpdates and of its channel
loopVars == << pc, ctxDone, tickC, marker, attempt, retryWait, retryErr, waits, sent,
               outcome, updateList, idx, ch, closed, retrieved, consumed >>

\* the state of the webhook handler and of its channel
hookVars == << updates, handled, requests, received >>

\* the state of a direct call of a decoding function
callVars == << input, output >>

vars == << loopVars, debug, hookVars, callVars >>

\* bytesToProperUpdate of the Api at hand
bytesToProperUpdate(data) == bytesToProperUpdateDebug(data, debug)

\* the raw updates the endpoint hands out
ServerUpdates ==
    { RawUpd("wellformed", "message_created", "f1", << RawAtt("wellformed", "image", "p1") >>),
      RawUpd("wellformed", "bot_started", "f1", <<>>),
      RawUpd("wellformed", "poll_created", "f1", <<>>),
      RawUpd("malformed", "message_created", "f1", <<>>),
      RawUpd("wellformed", "message_edited", "f1",
             << RawAtt("wellformed", "image", "p1"), RawAtt("malformed", "image", "p1") >>) }

SeqsUpTo(S, n) == UNION { [1..k -> S] : k \in 0..n }

Markers == {NilPtr} \cup { Ptr(m) : m \in 0..MaxMarker }

\* the goroutine of GetUpdates before its first tick
LoopInit ==
    /\ pc = "idle"
    /\ ctxDone = FALSE
    /\ tickC = FALSE
    /\ marker = 0
    /\ attempt = 0
    /\ retryWait = 0
    /\ retryErr = Nil
    /\ waits = <<>>
    /\ sent = NilPtr
    /\ outcome = "none"
    /\ updateList = EmptyUpdateList
    /\ idx = 0
    /\ ch = <<>>
    /\ closed = FALSE
    /\ retrieved = <<>>
    /\ consumed = <<>>

\* no request served yet
NoRequest == [method |-> "none"]

\* a handler on an empty channel
HookInit ==
    /\ updates = <<>>
    /\ handled = NoRequest
    /\ requests = <<>>
    /\ received = 0

\* no decoding function called directly
NoCall == [fn |-> "none"]
CallInit ==
    /\ input = NoCall
    /\ output = NoCall

\* New: debug is false
Init ==
    /\ LoopInit
    /\ debug = FALSE
    /\ HookInit
    /\ CallInit

\* -------------------------------------------------------------- environment
\* the runtime timer puts a tick into ticker.C unless one is waiting there
TickerFire ==
    /\ pc # "stopped"
    /\ ~tickC
    /\ tickC' = TRUE
    /\ UNCHANGED << pc, ctxDone, marker, attempt, retryWait, retryErr, waits, sent, outcome,
                    updateList, idx, ch, closed, retrieved, consumed >>
    /\ UNCHANGED << debug, hookVars, callVars >>

\* the owner cancels ctx
Cancel ==
    /\ ~ctxDone
    /\ ctxDone' = TRUE
    /\ UNCHANGED << pc, tickC, marker, attempt, retryWait, retryErr, waits, sent, outcome,
                    updateList, idx, ch, closed, retrieved, consumed >>
    /\ UNCHANGED << debug, hookVars, callVars >>

\* the consumer receives from ch
Consume ==
    /\ ch # <<>>
    /\ consumed' = Append(consumed, Head(ch))
    /\ ch' = Tail(ch)
    /\ UNCHANGED << pc, ctxDone, tickC, marker, attempt, retryWait, retryErr, waits, sent,
                    outcome, updateList, idx, closed, retrieved >>
    /\ UNCHANGED << debug, hookVars, callVars >>

\* ------------------------------------------------------------ the goroutine
\* a.getUpdates(ctx, params) sends its request
SendRequest(att, m) ==
    /\ pc' = "inflight"
    /\ attempt' = att
    /\ sent' = MarkerParam(m)
    /\ outcome' = "pending"
    /\ retryErr' = Nil

\* a close(ch) after which the goroutine is at its outer select again
Return_detached ==
    /\ pc' = "idle"
    /\ closed' = TRUE

\* the deferred close(ch) and ticker.Stop() of a return
Return ==
    /\ pc' = "stopped"
    /\ closed' = TRUE

\* outer select, case <-ctx.Done()
SelectDone ==
    /\ pc = "idle"
    /\ ctxDone
    /\ Return
    /\ UNCHANGED << ctxDone, tickC, marker, attempt, retryWait, retryErr, waits, sent, outcome,
                    updateList, idx, ch, retrieved, consumed >>
    /\ UNCHANGED << debug, hookVars, callVars >>

\* outer select, case <-ticker.C: the first request of getUpdatesWithRetry
SelectTick ==
    /\ pc = "idle"
    /\ tickC
    /\ tickC' = FALSE
    /\ waits' = <<>>
    /\ SendRequest(0, marker)
    /\ UNCHANGED << ctxDone, marker, retryWait, updateList, idx, ch, closed,
                    retrieved, consumed >>
    /\ UNCHANGED << debug, hookVars, callVars >>

\* getUpdatesWithRetry has returned an error or an empty list: the inner loop
\* breaks to the outer select, and the locals of the call are gone
BackToIdle ==
    /\ pc' = "idle"
    /\ attempt' = 0
    /\ retryWait' = 0
    /\ waits' = <<>>

\* HandleResult of a loop that gives up once the retries are used up
HandleResult_fatal(r) ==
    IF r.err # Nil
    THEN IF attempt < maxRetries - 1
         THEN /\ pc' = "backoff"
              /\ retryWait' = retryWaitOf(attempt)
              /\ UNCHANGED << attempt, retryErr, waits, updateList, idx, retrieved >>
         ELSE /\ pc' = "stopped"
              /\ attempt' = 0
              /\ retryWait' = 0
              /\ waits' = <<>>
              /\ retryErr' = "failed after attempts"
              /\ updateList' = r.list
              /\ UNCHANGED << idx, retrieved >>
    ELSE IF Len(r.list.Updates) = 0
         THEN /\ BackToIdle
              /\ updateList' = r.list
              /\ UNCHANGED << retryErr, idx, retrieved >>
         ELSE /\ pc' = "deliver"
              /\ updateList' = r.list
              /\ idx' = 1
              /\ retrieved' = retrieved \o r.list.Updates
              /\ UNCHANGED << attempt, retryWait, retryErr, waits >>

\* what the goroutine does with the result of one request, up to its next
\* blocking point
HandleResult(r) ==
    IF r.err # Nil
    THEN IF attempt < maxRetries - 1
         THEN /\ pc' = "backoff"
              /\ retryWait' = retryWaitOf(attempt)
              /\ UNCHANGED << attempt, retryErr, waits, updateList, idx, retrieved >>
         ELSE /\ BackToIdle
              /\ retryErr' = "failed after attempts"
              /\ updateList' = r.list
              /\ UNCHANGED << idx, retrieved >>
    ELSE IF Len(r.list.Updates) = 0
         THEN /\ BackToIdle
              /\ updateList' = r.list
              /\ UNCHANGED << retryErr, idx, retrieved >>
         ELSE /\ pc' = "deliver"
              /\ updateList' = r.list
              /\ idx' = 1
              /\ retrieved' = retrieved \o r.list.Updates
              /\ UNCHANGED << attempt, retryWait, retryErr, waits >>

\* the round trip fails: no connection or a cancelled ctx, a non-200 status,
\* or a 200 response whose body is no update list
RequestFails ==
    /\ pc = "inflight"
    /\ \E net \in NetOutcomes \ {"timeout"} :
          /\ net \in {"ok", "apierr"} => ~ctxDone
          /\ outcome' = "error"
          /\ HandleResult(getUpdates(net, Body("malformed", EmptyUpdateList)))
    /\ UNCHANGED << ctxDone, tickC, marker, sent, ch, closed, consumed >>
    /\ UNCHANGED << debug, hookVars, callVars >>

\* httpClient.Do runs into httpClient.Timeout
RequestTimesOut ==
    /\ pc = "inflight"
    /\ ~ctxDone
    /\ outcome' = "timeout"
    /\ HandleResult(getUpdates("timeout", NoBody))
    /\ UNCHANGED << ctxDone, tickC, marker, sent, ch, closed, consumed >>
    /\ UNCHANGED << debug, hookVars, callVars >>

\* the endpoint answers 200 with an update list
RequestReturns ==
    /\ pc = "inflight"
    /\ ~ctxDone
    /\ \E ups \in SeqsUpTo(ServerUpdates, MaxBatchLen), mk \in Markers :
          /\ Len(retrieved) + Len(ups) <= MaxServed
          /\ outcome' = "ok"
          /\ HandleResult(getUpdates("ok", Body("wellformed", [Updates |-> ups, Marker |-> mk])))
    /\ UNCHANGED << ctxDone, tickC, marker, sent, ch, closed, consumed >>
    /\ UNCHANGED << debug, hookVars, callVars >>

\* a Done case that cuts the wait short and goes on to the next attempt
BackoffDone_hasty ==
    /\ pc = "backoff"
    /\ ctxDone
    /\ retryWait' = 0
    /\ SendRequest(attempt + 1, marker)
    /\ UNCHANGED << ctxDone, tickC, marker, waits, updateList, idx, ch, closed, retrieved,
                    consumed >>
    /\ UNCHANGED << debug, hookVars, callVars >>

\* backoff select, case <-ctx.Done(): getUpdatesWithRetry returns ctx.Err(),
\* the goroutine logs and breaks to the outer select
BackoffDone ==
    /\ pc = "backoff"
    /\ ctxDone
    /\ BackToIdle
    /\ retryErr' = "context canceled"
    /\ UNCHANGED << ctxDone, tickC, marker, sent, outcome, updateList, idx, ch,
                    closed, retrieved, consumed >>
    /\ UNCHANGED << debug, hookVars, callVars >>

\* backoff select, case <-time.After(retryWait): the next attempt
BackoffElapsed ==
    /\ pc = "backoff"
    /\ waits' = Append(waits, retryWait)
    /\ retryWait' = 0
    /\ SendRequest(attempt + 1, marker)
    /\ UNCHANGED << ctxDone, tickC, marker, updateList, idx, ch, closed, retrieved,
                    consumed >>
    /\ UNCHANGED << debug, hookVars, callVars >>

\* a marker that falls back to zero when the response reports none
AdoptMarker_reset(list, m) == IF list.Marker # NilPtr THEN list.Marker[1] ELSE 0

\* the marker after a batch has been ranged over
AdoptMarker(list, m) == IF list.Marker # NilPtr THEN list.Marker[1] ELSE m

\* the marker is adopted inside the range loop, after each update
NextUpdate_eager ==
    IF idx < Len(updateList.Updates)
    THEN /\ idx' = idx + 1
         /\ marker' = AdoptMarker(updateList, marker)
         /\ UNCHANGED << pc, attempt, retryErr, waits, sent, outcome, updateList >>
    ELSE /\ marker' = AdoptMarker(updateList, marker)
         /\ updateList' = EmptyUpdateList
         /\ idx' = 0
         /\ waits' = <<>>
         /\ SendRequest(0, AdoptMarker(updateList, marker))

\* the next request of the inner loop is built before the marker is adopted
NextUpdate_stale ==
    IF idx < Len(updateList.Updates)
    THEN /\ idx' = idx + 1
         /\ UNCHANGED << pc, marker, attempt, retryErr, waits, sent, outcome, updateList >>
    ELSE /\ marker' = AdoptMarker(updateList, marker)
         /\ updateList' = EmptyUpdateList
         /\ idx' = 0
         /\ waits' = <<>>
         /\ SendRequest(0, marker)

\* the inner loop ends after every batch: the next request waits for a tick
NextUpdate_tick ==
    IF idx < Len(updateList.Updates)
    THEN /\ idx' = idx + 1
         /\ UNCHANGED << pc, marker, attempt, retryErr, waits, sent, outcome, updateList >>
    ELSE /\ marker' = AdoptMarker(updateList, marker)
         /\ updateList' = EmptyUpdateList
         /\ idx' = 0
         /\ pc' = "idle"
         /\ UNCHANGED << attempt, retryErr, waits, sent, outcome >>

\* the range loop moves on; after the last update the marker is adopted and
\* the inner loop calls getUpdatesWithRetry again
NextUpdate ==
    IF idx < Len(updateList.Updates)
    THEN /\ idx' = idx + 1
         /\ UNCHANGED << pc, marker, attempt, retryErr, waits, sent, outcome, updateList >>
    ELSE /\ marker' = AdoptMarker(updateList, marker)
         /\ updateList' = EmptyUpdateList
         /\ idx' = 0
         /\ waits' = <<>>
         /\ SendRequest(0, AdoptMarker(updateList, marker))

\* a failed decode ends the goroutine
SkipUpdate_abort ==
    /\ pc = "deliver"
    /\ bytesToProperUpdate(updateList.Updates[idx]).err # Nil
    /\ Return
    /\ UNCHANGED << ctxDone, tickC, marker, attempt, retryWait, retryErr, waits, sent, outcome,
                    updateList, idx, ch, retrieved, consumed >>
    /\ UNCHANGED << debug, hookVars, callVars >>

\* the continue is missing: the nil update of a failed decode is sent
SkipUpdate_push ==
    /\ pc = "deliver"
    /\ bytesToProperUpdate(updateList.Updates[idx]).err # Nil
    /\ Len(ch) < QueueCap
    /\ ch' = Append(ch, bytesToProperUpdate(updateList.Updates[idx]).update)
    /\ NextUpdate
    /\ UNCHANGED << ctxDone, tickC, retryWait, closed, retrieved, consumed >>
    /\ UNCHANGED << debug, hookVars, callVars >>

\* bytesToProperUpdate fails: continue
SkipUpdate ==
    /\ pc = "deliver"
    /\ bytesToProperUpdate(updateList.Updates[idx]).err # Nil
    /\ NextUpdate
    /\ UNCHANGED << ctxDone, tickC, retryWait, ch, closed, retrieved, consumed >>
    /\ UNCHANGED << debug, hookVars, callVars >>

\* a send that does not wait for room in the channel
SendUpdate_unbounded ==
    /\ pc = "deliver"
    /\ bytesToProperUpdate(updateList.Updates[idx]).err = Nil
    /\ ch' = Append(ch, bytesToProperUpdate(updateList.Updates[idx]).update)
    /\ NextUpdate
    /\ UNCHANGED << ctxDone, tickC, retryWait, closed, retrieved, consumed >>
    /\ UNCHANGED << debug, hookVars, callVars >>

\* a send with a default case: a full channel drops the update
SendUpdate_drop ==
    /\ pc = "deliver"
    /\ bytesToProperUpdate(updateList.Updates[idx]).err = Nil
    /\ ch' = IF Len(ch) < QueueCap
             THEN Append(ch, bytesToProperUpdate(updateList.Updates[idx]).update)
             ELSE ch
    /\ NextUpdate
    /\ UNCHANGED << ctxDone, tickC, retryWait, closed, retrieved, consumed >>
    /\ UNCHANGED << debug, hookVars, callVars >>

\* send select, case ch <- update
SendUpdate ==
    /\ pc = "deliver"
    /\ bytesToProperUpdate(updateList.Updates[idx]).err = Nil
    /\ Len(ch) < QueueCap
    /\ ch' = Append(ch, bytesToProperUpdate(updateList.Updates[idx]).update)
    /\ NextUpdate
    /\ UNCHANGED << ctxDone, tickC, retryWait, closed, retrieved, consumed >>
    /\ UNCHANGED << debug, hookVars, callVars >>

\* a bare send, with no Done case to leave by
SendDone_never ==
    /\ pc = "deliver"
    /\ FALSE
    /\ UNCHANGED vars

\* the Done case completes the pending send before it returns
SendDone_flush ==
    /\ pc = "deliver"
    /\ bytesToProperUpdate(updateList.Updates[idx]).err = Nil
    /\ ctxDone
    /\ Len(ch) < QueueCap
    /\ ch' = Append(ch, bytesToProperUpdate(updateList.Updates[idx]).update)
    /\ Return
    /\ UNCHANGED << ctxDone, tickC, marker, attempt, retryWait, retryErr, waits, sent, outcome,
                    updateList, idx, retrieved, consumed >>
    /\ UNCHANGED << debug, hookVars, callVars >>

\* send select, case <-ctx.Done(): return
SendDone ==
    /\ pc = "deliver"
    /\ bytesToProperUpdate(updateList.Updates[idx]).err = Nil
    /\ ctxDone
    /\ Return
    /\ UNCHANGED << ctxDone, tickC, marker, attempt, retryWait, retryErr, waits, sent, outcome,
                    updateList, idx, ch, retrieved, consumed >>
    /\ UNCHANGED << debug, hookVars, callVars >>

Next ==
    \/ TickerFire
    \/ Cancel
    \/ Consume
    \/ SelectDone
    \/ SelectTick
    \/ RequestFails
    \/ RequestTimesOut
    \/ RequestReturns
    \/ BackoffDone
    \/ BackoffElapsed
    \/ SkipUpdate
    \/ SendUpdate
    \/ SendDone

Spec == Init /\ [][Next]_vars

\* The goroutine keeps running: a request comes back (it is bounded by
\* httpClient.Timeout and by ctx), a failed decode is passed over, and a select
\* whose Done case is ready does not wait. The outer select is entered again
\* and again while ticks keep arriving; Go chooses among ready cases at
\* random, so its Done case is taken in the end.
FairSpec ==
    /\ Spec
    /\ WF_vars(RequestFails)
    /\ WF_vars(BackoffDone)
    /\ WF_vars(SkipUpdate)
    /\ WF_vars(SendDone)
    /\ SF_vars(SelectDone)

\* ------------------------------------------------------ the webhook handler
\* http.MethodPost with the check turned round
MethodPost_get == "GET"

\* http.MethodPost
MethodPost == "POST"

\* the methods requests arrive with
Methods == {"POST", "GET", "PUT"}

\* the bodies requests arrive with
HookBodies == ServerUpdates

\* the handler writes its response: what it did with the request and the
\* status code it answered
Reply(method, body, read, decoded, status) ==
    handled' = [method |-> method, body |-> body, read |-> read,
                decoded |-> decoded, status |-> status]

\* the select of the handler that sends and still answers 503
Deliver_mum(method, body, update) ==
    IF Len(updates) < HookCap
    THEN /\ updates' = Append(updates, update)
         /\ Reply(method, body, "ok", TRUE, 503)
    ELSE /\ UNCHANGED updates
         /\ Reply(method, body, "ok", TRUE, 503)

\* the select of the handler that makes room when the channel is full
Deliver_evict(method, body, update) ==
    IF Len(updates) < HookCap
    THEN /\ updates' = Append(updates, update)
         /\ Reply(method, body, "ok", TRUE, 200)
    ELSE /\ updates' = Append(Tail(updates), update)
         /\ Reply(method, body, "ok", TRUE, 200)

\* the select of the handler that puts the update in front
Deliver_front(method, body, update) ==
    IF Len(updates) < HookCap
    THEN /\ updates' = << update >> \o updates
         /\ Reply(method, body, "ok", TRUE, 200)
    ELSE /\ UNCHANGED updates
         /\ Reply(method, body, "ok", TRUE, 503)

\* select { case updates <- update: 200; default: 503 }
Deliver(method, body, update) ==
    IF Len(updates) < HookCap
    THEN /\ updates' = Append(updates, update)
         /\ Reply(method, body, "ok", TRUE, 200)
    ELSE /\ UNCHANGED updates
         /\ Reply(method, body, "ok", TRUE, 503)

\* a handler that moves the marker of the goroutine on when it takes an update
Serve_cursor(method, body, readFails) ==
    /\ IF method # MethodPost
       THEN /\ Reply(method, body, "none", FALSE, 405)
            /\ UNCHANGED << updates, marker >>
       ELSE IF readFails
       THEN /\ Reply(method, body, "failed", FALSE, 400)
            /\ UNCHANGED << updates, marker >>
       ELSE LET r == bytesToProperUpdate(body)
            IN  IF r.err # Nil
                THEN /\ Reply(method, body, "ok", TRUE, 400)
                     /\ UNCHANGED << updates, marker >>
                ELSE /\ Deliver(method, body, r.update)
                     /\ marker' = marker + 1
    /\ UNCHANGED << pc, ctxDone, tickC, attempt, retryWait, retryErr, waits, sent, outcome,
                    updateList, idx, ch, closed, retrieved, consumed >>
    /\ UNCHANGED << debug, callVars >>

\* a handler that lets through what it cannot parse
Serve_lenient(method, body, readFails) ==
    /\ IF method # MethodPost
       THEN /\ Reply(method, body, "none", FALSE, 405)
            /\ UNCHANGED updates
       ELSE IF readFails
       THEN /\ Reply(method, body, "failed", FALSE, 400)
            /\ UNCHANGED updates
       ELSE LET r == bytesToProperUpdate(body)
            IN  Deliver(method, body, r.update)
    /\ UNCHANGED << loopVars, debug, callVars >>

\* one call of the handler, from the method check to the response
Serve(method, body, readFails) ==
    /\ IF method # MethodPost
       THEN /\ Reply(method, body, "none", FALSE, 405)
            /\ UNCHANGED updates
       ELSE IF readFails
       THEN /\ Reply(method, body, "failed", FALSE, 400)
            /\ UNCHANGED updates
       ELSE LET r == bytesToProperUpdate(body)
            IN  IF r.err # Nil
                THEN /\ Reply(method, body, "ok", TRUE, 400)
                     /\ UNCHANGED updates
                ELSE Deliver(method, body, r.update)
    /\ UNCHANGED << loopVars, debug, callVars >>

\* a request arrives: any method, any body, and a body that can or cannot be
\* read to its end
ServeHTTP ==
    /\ \E method \in Methods, body \in HookBodies, readFails \in BOOLEAN :
          Serve(method, body, readFails)
    /\ UNCHANGED << requests, received >>

\* the owner of the channel receives from it
HookReceive ==
    /\ updates # << >>
    /\ updates' = Tail(updates)
    /\ UNCHANGED << handled, requests, received >>
    /\ UNCHANGED << loopVars, debug, callVars >>

\* New or NewWithConfig, then GetHandler
HookStart ==
    /\ LoopInit
    /\ debug \in BOOLEAN
    /\ HookInit
    /\ CallInit

HookNext ==
    \/ ServeHTTP
    \/ HookReceive

HookSpec == HookStart /\ [][HookNext]_vars

\* ------------------------------------------------ calls of the handler side by side
\* the requests that arrive: two that decode, one of an unknown type, one
\* whose body cannot be read, one GET
Arrivals ==
    { [method |-> "POST", readFails |-> FALSE,
       body |-> RawUpd("wellformed", "bot_started", "f1", <<>>)],
      [method |-> "POST", readFails |-> FALSE,
       body |-> RawUpd("wellformed", "message_created", "f1",
                       << RawAtt("wellformed", "image", "p1") >>)],
      [method |-> "POST", readFails |-> FALSE,
       body |-> RawUpd("wellformed", "poll_created", "f1", <<>>)],
      [method |-> "POST", readFails |-> TRUE,
       body |-> RawUpd("wellformed", "bot_started", "f1", <<>>)],
      [method |-> "GET", readFails |-> FALSE,
       body |-> RawUpd("wellformed", "bot_started", "f1", <<>>)] }

\* the server starts a goroutine that calls the handler with a request
Arrive ==
    /\ Len(requests) < MaxRequests
    /\ \E req \in Arrivals :
          requests' = Append(requests, [stage |-> "running", method |-> req.method,
                                        body |-> req.body, readFails |-> req.readFails,
                                        status |-> 0, full |-> FALSE, pushed |-> 0])
    /\ UNCHANGED << updates, handled, received >>
    /\ UNCHANGED << loopVars, debug, callVars >>

\* a call of the handler runs to its response; its select is where it meets
\* the channel, and the calls that arrived before or after it may be anywhere
Finish(i) ==
    /\ requests[i].stage = "running"
    /\ Serve(requests[i].method, requests[i].body, requests[i].readFails)
    /\ requests' = [requests EXCEPT ![i] =
                       [stage |-> "done", method |-> @.method, body |-> @.body,
                        readFails |-> @.readFails,
                        status |-> handled'.status,
                        full |-> Len(updates) = HookCap,
                        pushed |-> Len(updates') - Len(updates)]]
    /\ UNCHANGED received

\* some call of the handler in progress runs to its response
FinishSome == \E i \in 1..Len(requests) : Finish(i)

\* the owner of the channel receives from it
ManyReceive ==
    /\ updates # << >>
    /\ updates' = Tail(updates)
    /\ received' = received + 1
    /\ UNCHANGED << handled, requests >>
    /\ UNCHANGED << loopVars, debug, callVars >>

ManyNext ==
    \/ Arrive
    \/ FinishSome
    \/ ManyReceive

ManySpec == Init /\ [][ManyNext]_vars

\* ---------------------------------------------------------- the constructors
\* the constants of api.go; defaultTimeout in seconds
version == "1.2.5"
defaultTimeout == 30
defaultAPIURL == "https://botapi.max.ru/"

\* a nil *Api, and a nil configservice.ConfigInterface
NilApi == [client |-> "nil"]
NilConfig == [config |-> "nil"]

\* the base URLs a configuration may give, and those of them url.Parse refuses
BaseURLs == {"", "https://test.com/", "http://[::1]:namedport"}
BadURLs == {"http://[::1]:namedport"}

\* url.Parse: [url, err]
urlParse(rawURL) ==
    IF rawURL \in BadURLs
    THEN [url |-> "nil", err |-> "invalid port"]
    ELSE [url |-> << rawURL >>, err |-> Nil]

\* New(token): [api, err]
New(token) ==
    IF token = ""
    THEN [api |-> NilApi, err |-> "ErrEmptyToken"]
    ELSE LET u == urlParse(defaultAPIURL)
         IN  IF u.err # Nil
             THEN [api |-> NilApi, err |-> "ErrInvalidURL"]
             ELSE [api |-> [client |-> [token |-> token, version |-> version, url |-> u.url,
                                        timeout |-> defaultTimeout],
                            timeout |-> defaultTimeout, debug |-> FALSE, debugChat |-> 0],
                   err |-> Nil]

\* NewWithConfig that never looks at the environment
NewWithConfig_noenv(cfg, env) ==
    IF cfg = NilConfig
    THEN [api |-> NilApi, err |-> "config is nil"]
    ELSE IF cfg.token = ""
    THEN [api |-> NilApi, err |-> "ErrEmptyToken"]
    ELSE LET timeout == IF cfg.timeout <= 0 THEN defaultTimeout ELSE cfg.timeout
             baseURL == IF cfg.url = "" THEN defaultAPIURL ELSE cfg.url
             u == urlParse(baseURL)
             apiVersion == IF cfg.version = "" THEN version ELSE cfg.version
         IN  IF u.err # Nil
             THEN [api |-> NilApi, err |-> "ErrInvalidURL"]
             ELSE [api |-> [client |-> [token |-> cfg.token, version |-> apiVersion,
                                        url |-> u.url, timeout |-> timeout],
                            timeout |-> timeout, debug |-> cfg.debug,
                            debugChat |-> cfg.debugChat],
                   err |-> Nil]

\* NewWithConfig(cfg) with the environment variable TOKEN at env: [api, err];
\* the errors are the sentinels errors.Is finds in them
NewWithConfig(cfg, env) ==
    IF cfg = NilConfig
    THEN [api |-> NilApi, err |-> "config is nil"]
    ELSE LET token == IF cfg.token = "" THEN env ELSE cfg.token
         IN  IF token = ""
             THEN [api |-> NilApi, err |-> "ErrEmptyToken"]
             ELSE LET timeout == IF cfg.timeout <= 0 THEN defaultTimeout ELSE cfg.timeout
                      baseURL == IF cfg.url = "" THEN defaultAPIURL ELSE cfg.url
                      u == urlParse(baseURL)
                      apiVersion == IF cfg.version = "" THEN version ELSE cfg.version
                  IN  IF u.err # Nil
                      THEN [api |-> NilApi, err |-> "ErrInvalidURL"]
                      ELSE [api |-> [client |-> [token |-> token, version |-> apiVersion,
                                                 url |-> u.url, timeout |-> timeout],
                                     timeout |-> timeout, debug |-> cfg.debug,
                                     debugChat |-> cfg.debugChat],
                            err |-> Nil]

\* the configurations: what the getters of a ConfigInterface return
Configs ==
    {NilConfig} \cup
    [token : {"", "test_token"}, timeout : {-1, 0, 10}, url : BaseURLs,
     version : {"", "1.0"}, debug : BOOLEAN, debugChat : {123}]

\* the values of the environment variable TOKEN
EnvTokens == {"", "env_token"}

\* ------------------------------------------------- the decoder called alone
\* what encoding/json can make of a payload
JsonKinds == {"wellformed", "mistyped", "malformed"}

\* type tags no table has: one of a later API version, and a missing one
UnknownTypes == {"poll_created", ""}

\* what a payload says apart from its type and its attachments
FieldValues == {"f1", "f2"}

\* every attachment payload
RawAttachments ==
    { RawAtt(j, t, f) : j \in JsonKinds, t \in AttachmentTypes \cup UnknownTypes,
                        f \in FieldValues }

\* the attachment payloads that message bodies carry
BodyAttachments ==
    { RawAtt("wellformed", "image", "f1"),
      RawAtt("wellformed", "poll_created", "f2"),
      RawAtt("malformed", "image", "f1"),
      RawAtt("mistyped", "video", "f1") }

\* every update payload
RawUpdates ==
    { RawUpd(j, t, f, atts) : j \in JsonKinds, t \in UpdateTypes \cup UnknownTypes,
                              f \in FieldValues,
                              atts \in SeqsUpTo(BodyAttachments, MaxAtts) }

\* the updates bytesToProperUpdate hands to processMessageAttachments
UnresolvedUpdates ==
    { UnmarshalUpdate(d, updateTypeMap[d.update_type], << >>) :
        d \in { r \in RawUpdates : r.json = "wellformed" /\ r.update_type \in UpdateTypes } }

\* the calls made
Calls ==
    { [fn |-> "bytesToProperUpdate", arg |-> d] : d \in RawUpdates } \cup
    { [fn |-> "bytesToProperAttachment", arg |-> d] : d \in RawAttachments } \cup
    { [fn |-> "processMessageAttachments", arg |-> u] : u \in UnresolvedUpdates } \cup
    { [fn |-> "New", arg |-> [token |-> t]] : t \in {"", "test"} } \cup
    { [fn |-> "NewWithConfig", arg |-> [cfg |-> c, env |-> e]] :
        c \in Configs, e \in EnvTokens }

\* a.bytesToProperUpdate(data) returns
CallUpdate ==
    /\ input.fn = "bytesToProperUpdate"
    /\ output = NoCall
    /\ output' = [fn |-> input.fn, result |-> bytesToProperUpdate(input.arg)]
    /\ UNCHANGED << loopVars, debug, hookVars, input >>

\* a.bytesToProperAttachment(data) returns
CallAttachment ==
    /\ input.fn = "bytesToProperAttachment"
    /\ output = NoCall
    /\ output' = [fn |-> input.fn, result |-> bytesToProperAttachment(input.arg)]
    /\ UNCHANGED << loopVars, debug, hookVars, input >>

\* a.processMessageAttachments(update) returns
CallProcess ==
    /\ input.fn = "processMessageAttachments"
    /\ output = NoCall
    /\ output' = [fn |-> input.fn, result |-> processMessageAttachments(input.arg)]
    /\ UNCHANGED << loopVars, debug, hookVars, input >>

\* New(token) returns
CallNew ==
    /\ input.fn = "New"
    /\ output = NoCall
    /\ output' = [fn |-> input.fn, result |-> New(input.arg.token)]
    /\ UNCHANGED << loopVars, debug, hookVars, input >>

\* NewWithConfig(cfg) returns
CallNewWithConfig ==
    /\ input.fn = "NewWithConfig"
    /\ output = NoCall
    /\ output' = [fn |-> input.fn, result |-> NewWithConfig(input.arg.cfg, input.arg.env)]
    /\ UNCHANGED << loopVars, debug, hookVars, input >>

\* New or NewWithConfig, then one call
CallStart ==
    /\ LoopInit
    /\ debug \in BOOLEAN
    /\ HookInit
    /\ input \in Calls
    /\ output = NoCall

CallNext ==
    \/ CallUpdate
    \/ CallAttachment
    \/ CallProcess
    \/ CallNew
    \/ CallNewWithConfig

CallSpec == CallStart /\ [][CallNext]_vars

\* ------------------------------------------------------ either way of intake
\* the handler has not been called
HookUnused == updates = << >> /\ handled = NoRequest

\* GetUpdates has not been called: no ticker runs, nothing was retrieved
LoopUnused == LoopInit

\* a bot takes its updates by long polling or by webhook, the one or the other
IntakeNext ==
    \/ HookUnused /\ Next
    \/ LoopUnused /\ HookNext

IntakeSpec == Init /\ [][IntakeNext]_vars

\* ------------------------------------------------------------------ claims
\* the goroutine has taken a step (the environment never writes these)
LoopMoved == << pc, idx, closed >>' # << pc, idx, closed >>

\* the raw update the range loop is at
Current == updateList.Updates[idx]

\* raw updates of the batch in hand that the range loop has not passed yet
Remaining == IF idx = 0 THEN 0 ELSE Len(updateList.Updates) - idx + 1

\* the updates a sequence of raw updates decodes to, failures left out
Decodable(raw) == bytesToProperUpdate(raw).err = Nil
Decoded(raws) ==
    LET ok == SelectSeq(raws, Decodable)
    IN  [i \in 1..Len(ok) |-> bytesToProperUpdate(ok[i]).update]

\* C1 as stated: after the third consecutive failure of a retry sequence a third
\* retry follows, after a wait of 4 seconds, without a return to the pacing tick.
C1_ThirdRetryAfterFourSeconds ==
    [][(pc = "inflight" /\ attempt = 2 /\ outcome' = "error")
          => (pc' = "backoff" /\ retryWait' = 4)]_vars

\* C1 amended: a retry sequence makes at most three requests; the waits that
\* elapsed before request number attempt+1 are the first attempt of 1s, 2s, so a
\* batch that arrives on the third request was preceded by exactly two retries
\* with waits of 1s and 2s, and no wait of 4s is ever made.
C1_TwoRetriesOneTwoSeconds ==
    /\ attempt \in 0..2
    /\ pc \in {"inflight", "backoff", "deliver"} => waits = SubSeq(<< 1, 2 >>, 1, attempt)
    /\ pc = "backoff" => << attempt, retryWait >> \in { << 0, 1 >>, << 1, 2 >> }
    /\ pc = "deliver" => outcome = "ok"

\* C1 witness: a batch is being delivered that arrived on the third request
C1_DeliveredOnThirdRequest ==
    pc = "deliver" /\ attempt = 2 /\ waits = << 1, 2 >> /\ ~ctxDone

\* C2 as stated: a request that times out at the transport layer counts as an
\* empty batch: the loop goes back to the pacing tick, with no backoff wait and
\* no attempt used.
C2_TimeoutIsEmptyBatch ==
    [][(pc = "inflight" /\ outcome' = "timeout")
          => (pc' = "idle" /\ retryWait' = 0 /\ attempt' = 0)]_vars

\* C3: a raw update that fails to decode is passed over: nothing is sent, the
\* queue stays open, the range loop goes on at the next position of the same
\* batch, and after the last position the batch's marker is adopted and the
\* inner loop goes on with the next request.
C3_SkipUndecodable ==
    [][(pc = "deliver" /\ LoopMoved /\ ~Decodable(Current))
          => /\ ch' = ch
             /\ ~closed'
             /\ IF idx < Len(updateList.Updates)
                THEN pc' = "deliver" /\ idx' = idx + 1 /\ updateList' = updateList
                ELSE /\ pc' = "inflight"
                     /\ updateList.Marker # NilPtr => marker' = updateList.Marker[1]]_vars

\* C3 witness: a batch whose first update failed to decode has been ranged over,
\* its second update was sent and its marker adopted
C3_SkippedThenSent ==
    /\ pc = "inflight"
    /\ Len(retrieved) = 2
    /\ ~Decodable(retrieved[1])
    /\ Decodable(retrieved[2])
    /\ consumed \o ch = << bytesToProperUpdate(retrieved[2]).update >>
    /\ marker = 1

C5_SendBlocksOnFullQueue ==
    [][(pc = "deliver" /\ Decodable(Current))
          => /\ Len(ch) = QueueCap
                => \/ (~LoopMoved /\ sent' = sent /\ outcome' = outcome)
                   \/ (ctxDone /\ pc' = "stopped")
             /\ (LoopMoved /\ pc' # "stopped")
                => ch' = Append(ch, bytesToProperUpdate(Current).update)]_vars

\* C5 witness: a decoded update waits at a full queue, no cancellation
C5_BlockedOnFullQueue ==
    pc = "deliver" /\ Decodable(Current) /\ Len(ch) = QueueCap /\ ~ctxDone

\* C6: once the context is cancelled the goroutine reaches its return and
\* the queue is closed.
C6_CancelLeadsToStopped == ctxDone ~> (pc = "stopped" /\ closed)

\* C6 witness: the goroutine returned from a send that was blocked on a full
\* queue
C6_StoppedWhileBlocked ==
    pc = "stopped" /\ closed /\ ctxDone /\ Remaining > 0 /\ Len(ch) = QueueCap

\* C7 as stated: once the context is cancelled nothing more is sent to the
\* queue.
C7_NoSendAfterCancel == [][ctxDone => Len(ch') <= Len(ch)]_vars

\* C7 amended: the step by which the goroutine observes the cancellation, and
\* every step after it, sends nothing: the pending delivery is not completed,
\* the rest of the batch is left where it is and the marker is not adopted.
C7_NoSendOnceStopped ==
    [][pc' = "stopped"
          => /\ Len(ch') <= Len(ch)
             /\ idx' = idx
             /\ updateList' = updateList
             /\ marker' = marker]_vars

\* C7 witness: the goroutine returned with the queue not full and two updates
\* of its batch not passed
C7_StoppedWithBatchLeft ==
    pc = "stopped" /\ Remaining = 2 /\ Len(ch) < QueueCap

\* C8 as stated: the marker never takes a value below one it held.
C8_MarkerNeverDecreases == [][marker' >= marker]_vars

\* C8 amended: the marker starts at zero and changes only when the last update
\* of a batch has been passed, to the marker that batch reported.
C8_MarkerOnlyAdopted ==
    /\ marker = 0
    /\ [][marker' # marker
             => /\ pc = "deliver"
                /\ idx = Len(updateList.Updates)
                /\ updateList.Marker # NilPtr
                /\ marker' = updateList.Marker[1]]_vars

\* C8 witness: the marker has left zero and the request in flight carries it
C8_MarkerMoved == pc = "inflight" /\ marker = 1 /\ sent = << 1 >>

\* C9 as stated: a successful response that reports a marker has it adopted, be
\* the batch empty (at once) or not (when the batch has been ranged over).
C9_AdoptedAlsoWhenEmpty ==
    [][/\ (pc = "inflight" /\ outcome' = "ok" /\ Len(updateList'.Updates) = 0
             /\ updateList'.Marker # NilPtr)
          => marker' = updateList'.Marker[1]
       /\ (pc = "deliver" /\ pc' = "inflight" /\ updateList.Marker # NilPtr)
          => marker' = updateList.Marker[1]]_vars

\* C9 amended: when the last update of a non-empty batch has been passed the
\* marker the batch reported is adopted (none reported: the marker stays) and
\* the request sent next carries the marker if it is positive; an empty batch
\* leaves the marker as it was.
C9_AdoptedAfterNonEmptyBatch ==
    [][/\ (pc = "deliver" /\ pc' = "inflight")
          => /\ marker' = IF updateList.Marker = NilPtr THEN marker
                          ELSE updateList.Marker[1]
             /\ sent' = IF marker' > 0 THEN << marker' >> ELSE << >>
       /\ (pc = "inflight" /\ pc' = "idle") => marker' = marker]_vars

\* C9 witness: a batch has been ranged over and the request that followed it
\* carries the adopted marker
C9_NextRequestCarriesMarker ==
    /\ pc = "inflight"
    /\ attempt = 0
    /\ retrieved # << >>
    /\ Remaining = 0
    /\ marker = 1
    /\ sent = << 1 >>

\* C10: when the last update of a batch has been passed the next request is
\* sent in the same step, whatever ticker.C holds; an empty batch sends the
\* goroutine back to the outer select, which it leaves for a request only by
\* taking a tick.
C10_DrainThenTick ==
    [][/\ (pc = "deliver" /\ pc' \notin {"deliver", "stopped"})
          => (pc' = "inflight" /\ outcome' = "pending" /\ attempt' = 0 /\ tickC' = tickC)
       /\ (pc = "inflight" /\ outcome' = "ok" /\ Len(updateList'.Updates) = 0)
          => pc' = "idle"
       /\ (pc = "idle" /\ pc' = "inflight") => (tickC /\ ~tickC')]_vars

\* C10 witness: the request after a batch is in flight and no tick has come
\* since the one that started the drain
C10_RequestWithoutTick ==
    /\ pc = "inflight"
    /\ outcome = "pending"
    /\ Len(retrieved) = 1
    /\ Remaining = 0
    /\ ~tickC

\* ---------------------------------------------------------------- claim C11
\* the last request of a call of getUpdatesWithRetry has failed
RetriesExhausted ==
    /\ pc = "inflight"
    /\ attempt = maxRetries - 1
    /\ outcome' \in {"error", "timeout"}

\* C11: when the last retry fails the goroutine neither returns nor closes ch;
\* it is back at the outer select with the marker, the channel and the
\* locals of an ordinary wait, where a tick starts a new first request
C11_ExhaustedBackToTick ==
    /\ [][RetriesExhausted =>
             /\ pc' = "idle"
             /\ ~closed'
             /\ << ch, marker, retrieved, consumed >>' = << ch, marker, retrieved, consumed >>
             /\ << attempt, retryWait, waits >>' = << 0, 0, << >> >>]_vars
    /\ [](pc = "idle" /\ tickC => ENABLED SelectTick)

\* the retries are used up, ctx is live and a tick is waiting
C11_ExhaustedAndTicked ==
    /\ pc = "idle"
    /\ outcome \in {"error", "timeout"}
    /\ ~closed
    /\ ~ctxDone
    /\ tickC
    /\ consumed # << >>

\* ---------------------------------------------------------- claims C12..C15
\* the step is a receive of the channel's owner, not a call of the handler
Received == handled' = handled /\ updates # << >> /\ updates' = Tail(updates)

\* the step is a call of the handler with a POST request whose body was read
ServedPost == ~Received /\ handled'.method = "POST" /\ handled'.read = "ok"

\* C12: a POST request whose body cannot be decoded (malformed bytes, unknown
\* update type, a failing attachment) is answered 400 and leaves the channel as
\* it was; so is one whose body cannot be read
C12_UndecodableIsBadRequest ==
    /\ [][ServedPost /\ ~Decodable(handled'.body)
             => handled'.status = 400 /\ updates' = updates]_vars
    /\ [][~Received /\ handled'.method = "POST" /\ handled'.read = "failed"
             => handled'.status = 400 /\ updates' = updates]_vars

\* a request with a failing attachment was refused while updates were waiting
C12_RefusedWithQueueHeld ==
    /\ handled.method = "POST"
    /\ handled.read = "ok"
    /\ handled.body.json = "wellformed"
    /\ handled.body.update_type = "message_edited"
    /\ ~Decodable(handled.body)
    /\ handled.status = 400
    /\ updates # << >>

\* C13: a decodable POST request that meets a full channel is answered 503 and
\* leaves the channel as it was, and the handler is never kept from answering
C13_FullIsUnavailable ==
    /\ [][ServedPost /\ Decodable(handled'.body) /\ Len(updates) = HookCap
             => handled'.status = 503 /\ updates' = updates]_vars
    /\ [](\A body \in HookBodies : ENABLED Serve("POST", body, FALSE))

\* a request was turned away from a full channel
C13_TurnedAway ==
    /\ handled.method = "POST"
    /\ handled.status = 503
    /\ Decodable(handled.body)
    /\ Len(updates) = HookCap

\* C14: a decodable POST request that meets a channel with room is answered
\* 200, and the channel is what it was with the decoded body added at its end
C14_RoomIsAppend ==
    [][ServedPost /\ Decodable(handled'.body) /\ Len(updates) < HookCap
          => /\ handled'.status = 200
             /\ updates' = Append(updates, bytesToProperUpdate(handled'.body).update)]_vars

\* an update was added behind a different one
C14_AddedBehind ==
    /\ handled.method = "POST"
    /\ handled.status = 200
    /\ Len(updates) = 2
    /\ updates[1] # updates[2]
    /\ updates[2] = bytesToProperUpdate(handled.body).update

\* C15: a request of another method than POST is answered 405 with its body
\* neither read nor decoded, and leaves the channel as it was
C15_OtherMethodNotAllowed ==
    [][~Received /\ handled'.method \in {"GET", "PUT"}
          => /\ handled'.status = 405
             /\ handled'.read = "none"
             /\ ~handled'.decoded
             /\ updates' = updates]_vars

\* a GET request with a decodable body was refused while updates were waiting
C15_GetRefused ==
    /\ handled.method = "GET"
    /\ Decodable(handled.body)
    /\ handled.status = 405
    /\ updates # << >>
    /\ Len(updates) < HookCap

\* ---------------------------------------------------------- claims C16..C19
\* the closed update set: each type with the variant that bears its name
UpdateVariants ==
    { << "message_created", "MessageCreatedUpdate" >>,
      << "message_edited", "MessageEditedUpdate" >>,
      << "message_removed", "MessageRemovedUpdate" >>,
      << "message_callback", "MessageCallbackUpdate" >>,
      << "bot_added", "BotAddedToChatUpdate" >>,
      << "bot_removed", "BotRemovedFromChatUpdate" >>,
      << "user_added", "UserAddedToChatUpdate" >>,
      << "user_removed", "UserRemovedFromChatUpdate" >>,
      << "bot_started", "BotStartedUpdate" >>,
      << "chat_title_changed", "ChatTitleChangedUpdate" >> }

\* the closed attachment set
AttachmentTags ==
    {"audio", "contact", "file", "image", "inline_keyboard", "location", "share",
     "sticker", "video"}

\* every attachment payload of a sequence decodes
AllDecode(raws) == \A i \in 1..Len(raws) : bytesToProperAttachment(raws[i]).err = Nil

\* a call of fn has returned
Returned(fn) == input.fn = fn /\ output # NoCall

\* C16: a payload of one of the ten update types that is well-formed, its
\* attachments included, decodes without error to the variant that bears the
\* name of its type, with the type tag and the fields of the payload
C16_KnownTypeDecodes ==
    \A tv \in UpdateVariants :
        ( /\ Returned("bytesToProperUpdate")
          /\ input.arg.json = "wellformed"
          /\ input.arg.update_type = tv[1]
          /\ AllDecode(input.arg.attachments) )
        => /\ output.result.err = Nil
           /\ output.result.update.variant = tv[2]
           /\ output.result.update.update_type = input.arg.update_type
           /\ output.result.update.fields = input.arg.fields
           /\ tv[1] \in {"message_created", "message_edited"}
                 => output.result.update.raw_attachments = input.arg.attachments

\* a bot-removed payload was decoded with debug on
C16_BotRemovedDecoded ==
    /\ Returned("bytesToProperUpdate")
    /\ debug
    /\ input.arg.json = "wellformed"
    /\ input.arg.update_type = "bot_removed"
    /\ input.arg.fields = "f2"
    /\ output.result.update.variant = "BotRemovedFromChatUpdate"
    /\ output.result.update.debug_raw = << input.arg >>

\* C17: a payload whose envelope decodes and whose type is none of the ten
\* fails with the unknown-type error, the error names the type of the payload,
\* and no update is returned
C17_UnknownTypeFails ==
    ( /\ Returned("bytesToProperUpdate")
      /\ input.arg.json # "malformed"
      /\ input.arg.update_type \notin { tv[1] : tv \in UpdateVariants } )
    => /\ output.result.err = "unknown update type"
       /\ output.result.arg = input.arg.update_type
       /\ output.result.update = NilUpdate

\* a payload of an unknown type was refused
C17_PollCreatedRefused ==
    /\ Returned("bytesToProperUpdate")
    /\ input.arg.json = "wellformed"
    /\ input.arg.update_type = "poll_created"
    /\ output.result.err = "unknown update type"
    /\ output.result.arg = "poll_created"

\* C18: an attachment payload whose envelope decodes and whose type is none
\* of the nine decodes without error to the fallback variant, which has the
\* type and the content of the payload
C18_UnknownAttachmentFallsBack ==
    ( /\ Returned("bytesToProperAttachment")
      /\ input.arg.json # "malformed"
      /\ input.arg.type \notin AttachmentTags )
    => /\ output.result.err = Nil
       /\ output.result.att.variant = "Attachment"
       /\ output.result.att.type = input.arg.type
       /\ output.result.att.fields = input.arg.fields

\* an attachment payload of an unknown type was decoded
C18_PollAttachmentDecoded ==
    /\ Returned("bytesToProperAttachment")
    /\ input.arg.json = "wellformed"
    /\ input.arg.type = "poll_created"
    /\ output.result.att.variant = "Attachment"
    /\ output.result.att.type = "poll_created"

\* C19: processMessageAttachments, given a message-created or message-edited
\* update whose N raw attachments all decode, returns no error and leaves the
\* update with exactly N attachments, the i-th the decoding of the i-th raw
\* one, and nothing else changed; an update of another variant is returned
\* as it was
C19_ResolvedInOrder ==
    Returned("processMessageAttachments") =>
        LET u == input.arg
            r == output.result
        IN  IF u.variant \in {"MessageCreatedUpdate", "MessageEditedUpdate"}
            THEN AllDecode(u.raw_attachments) =>
                    /\ r.err = Nil
                    /\ Len(r.update.attachments) = Len(u.raw_attachments)
                    /\ \A i \in 1..Len(u.raw_attachments) :
                          r.update.attachments[i] = bytesToProperAttachment(u.raw_attachments[i]).att
                    /\ r.update = [u EXCEPT !.attachments = r.update.attachments]
            ELSE r.err = Nil /\ r.update = u

\* two different attachments of a message-edited update were resolved
C19_TwoResolved ==
    /\ Returned("processMessageAttachments")
    /\ input.arg.variant = "MessageEditedUpdate"
    /\ Len(input.arg.raw_attachments) = 2
    /\ output.result.err = Nil
    /\ Len(output.result.update.attachments) = 2
    /\ output.result.update.attachments[1] # output.result.update.attachments[2]

\* ---------------------------------------------------------------- claim C20
\* a message payload that is well-formed but for an attachment that fails
FailsOnAttachment(raw) ==
    /\ raw.json = "wellformed"
    /\ raw.update_type \in {"message_created", "message_edited"}
    /\ ~AllDecode(raw.attachments)

\* the update has an attachment for each raw attachment
FullyResolved(update) == Len(update.attachments) = Len(update.raw_attachments)

\* C20: a message payload with an attachment that fails to decode yields an
\* error and no update, whether the goroutine of GetUpdates or the handler
\* decodes it, and every update either of them has put on its channel has as
\* many attachments as raw attachments
C20_NoPartialAttachments ==
    /\ \A i \in 1..Len(retrieved) :
          FailsOnAttachment(retrieved[i]) =>
             /\ bytesToProperUpdate(retrieved[i]).err = "failed to process message attachments"
             /\ bytesToProperUpdate(retrieved[i]).update = NilUpdate
    /\ (handled # NoRequest /\ handled.method = "POST" /\ handled.read = "ok"
          /\ FailsOnAttachment(handled.body)) => handled.status = 400
    /\ \A i \in 1..Len(ch) : FullyResolved(ch[i])
    /\ \A i \in 1..Len(consumed) : FullyResolved(consumed[i])
    /\ \A i \in 1..Len(updates) : FullyResolved(updates[i])

\* of two payloads retrieved the one with the failing attachment was passed
\* over and the other has reached the consumer with its attachment
C20_FailingPassedOver ==
    /\ Len(retrieved) = 2
    /\ FailsOnAttachment(retrieved[1])
    /\ Len(retrieved[1].attachments) = 2
    /\ pc = "idle"
    /\ ch = << >>
    /\ Len(consumed) = 1
    /\ Len(consumed[1].attachments) = 1

\* ---------------------------------------------------------------- claim C21
\* C21: the channel of GetUpdates never holds more updates than its capacity,
\* nor does the channel given to GetHandler, whatever the order of sends and
\* receives
C21_WithinCapacity ==
    /\ Len(ch) <= QueueCap
    /\ Len(updates) <= HookCap

\* the channel is full again after the consumer has received from it
C21_FullAgainAfterReceive ==
    /\ Len(ch) = QueueCap
    /\ consumed # << >>
    /\ ~closed

\* ---------------------------------------------------------------- claim C22
\* the step is a call of the handler
HandlerStep == hookVars' # hookVars /\ ~Received

\* C22: the marker is written by the goroutine of GetUpdates alone, at the
\* end of a batch, and so is its channel; a call of the handler leaves the
\* marker, the marker sent, the channel of GetUpdates and everything else of
\* the goroutine as they were, and takes nothing from its own channel: that
\* channel after the call is the channel before it, or that with one update
\* added at the end
C22_HandlerKeepsOff ==
    /\ [][marker' # marker => pc = "deliver" /\ idx = Len(updateList.Updates)
                               /\ hookVars' = hookVars]_vars
    /\ [][ch' # ch /\ Len(ch') > Len(ch) => pc = "deliver" /\ hookVars' = hookVars]_vars
    /\ [][HandlerStep =>
             /\ loopVars' = loopVars
             /\ Len(updates') \in {Len(updates), Len(updates) + 1}
             /\ SubSeq(updates', 1, Len(updates)) = updates]_vars

\* the handler has taken two updates and the goroutine is where it was
C22_TakenWithLoopUntouched ==
    /\ handled # NoRequest
    /\ handled.status = 200
    /\ Len(updates) = 2
    /\ marker = 0
    /\ sent = NilPtr
    /\ ch = << >>
    /\ consumed = << >>

\* ---------------------------------------------------------------- claim C23
\* C23: NewWithConfig returns no client and an error for a nil configuration
\* ("config is nil"), for an empty configured token with an empty TOKEN in the
\* environment (ErrEmptyToken) and for a configured base URL that does not
\* parse (ErrInvalidURL); for every other configuration it returns a client
\* and no error
C23_ConstructorErrors ==
    Returned("NewWithConfig") =>
        LET cfg == input.arg.cfg
            env == input.arg.env
            r == output.result
        IN  IF cfg = [config |-> "nil"]
            THEN r.api = [client |-> "nil"] /\ r.err = "config is nil"
            ELSE IF cfg.token = "" /\ env = ""
            THEN r.api = [client |-> "nil"] /\ r.err = "ErrEmptyToken"
            ELSE IF cfg.url = "http://[::1]:namedport"
            THEN r.api = [client |-> "nil"] /\ r.err = "ErrInvalidURL"
            ELSE /\ r.err = "nil"
                 /\ r.api # [client |-> "nil"]
                 /\ r.api.client.token = IF cfg.token = "" THEN env ELSE cfg.token

\* a client was made with the token of the environment
C23_ClientFromEnvToken ==
    /\ Returned("NewWithConfig")
    /\ input.arg.cfg # [config |-> "nil"]
    /\ input.arg.cfg.token = ""
    /\ input.arg.cfg.url = ""
    /\ output.result.err = "nil"
    /\ output.result.api.client.token = "env_token"
    /\ output.result.api.client.url = << "https://botapi.max.ru/" >>

\* ---------------------------------------------------------------- claim C24
\* C24: a backoff wait with ctx cancelled can end at once by its Done case;
\* a wait ends either by that case, with getUpdatesWithRetry returning the
\* error of ctx and no request sent, or by its timer with the next attempt;
\* and the request that follows a return with the error of ctx is the first
\* of a new call, made from the outer select
C24_CancelEndsBackoff ==
    /\ [](pc = "backoff" /\ ctxDone => ENABLED BackoffDone)
    /\ [][pc = "backoff" /\ pc' # "backoff" =>
             \/ /\ pc' = "inflight"
                /\ attempt' = attempt + 1
                /\ waits' = Append(waits, retryWait)
             \/ /\ ctxDone
                /\ pc' = "idle"
                /\ retryErr' = "context canceled"
                /\ << sent, outcome, marker, ch >>' = << sent, outcome, marker, ch >>]_vars
    /\ [][retryErr = "context canceled" /\ pc' = "inflight" =>
             pc = "idle" /\ attempt' = 0]_vars

\* a wait was ended by the cancellation and the goroutine is at its outer select
C24_WaitCancelled ==
    /\ retryErr = "context canceled"
    /\ pc = "idle"
    /\ ctxDone
    /\ ~closed
    /\ outcome \in {"error", "timeout"}

\* ---------------------------------------------------------------- claim C25
\* C25: when the marker changes, the batch in hand came with a successful
\* response and every update retrieved so far that decodes has been sent, in
\* order; the step on which the last retry fails and the step on which a
\* cancellation ends a batch before its last send leave the marker as it was
C25_MarkerAfterWholeBatch ==
    /\ [][marker' # marker =>
             /\ outcome = "ok"
             /\ retryErr = Nil
             /\ Decoded(retrieved) = consumed' \o ch']_vars
    /\ [][RetriesExhausted => marker' = marker]_vars
    /\ [][pc = "deliver" /\ pc' = "stopped" => marker' = marker]_vars

\* a cancellation has ended a batch whose marker differs from the one held
C25_BatchLeftMarkerKept ==
    /\ pc = "stopped"
    /\ Remaining >= 1
    /\ updateList.Marker # NilPtr
    /\ updateList.Marker # Ptr(marker)
    /\ Decodable(Current)

\* ---------------------------------------------------------------- claim C26
\* C26: ch is closed when and only when the goroutine of GetUpdates has
\* returned; the closing step is the return of that goroutine from one of its
\* selects with ctx cancelled; once closed ch stays closed, the goroutine takes
\* no further step, and ch changes only by receives
C26_ClosedOnceAtReturn ==
    /\ [](closed <=> pc = "stopped")
    /\ [][~closed /\ closed' =>
             /\ pc \in {"idle", "deliver"}
             /\ ctxDone
             /\ pc' = "stopped"
             /\ ch' = ch]_vars
    /\ [][closed =>
             /\ closed'
             /\ ch' = ch \/ (ch # << >> /\ ch' = Tail(ch))
             /\ << pc, marker, attempt, sent, outcome, updateList, idx, retrieved >>'
                  = << pc, marker, attempt, sent, outcome, updateList, idx, retrieved >>]_vars

\* ch was closed with an update in it and with another still to send
C26_ClosedWithUpdateInside ==
    /\ closed
    /\ pc = "stopped"
    /\ ch # << >>
    /\ Remaining >= 1
    /\ Decodable(Current)

\* ---------------------------------------------------------------- claim C27
\* the requests that have their response, and those answered 200
Answered == { i \in 1..Len(requests) : requests[i].stage = "done" }
Accepted == { i \in Answered : requests[i].status = 200 }

\* C27: with calls of the handler in progress side by side, a call that has
\* ended has one response, 200, 400, 405 or 503, and one that has not has
\* none; as many calls were answered 200 as updates were put on the channel
\* (those in it and those received from it); a call answered 200 sent one
\* update and any other sent none; and a call answered 503 met a full channel
\* at its select
C27_OneResponseEach ==
    /\ \A i \in 1..Len(requests) :
          IF requests[i].stage = "done"
          THEN /\ requests[i].status \in {200, 400, 405, 503}
               /\ requests[i].pushed = IF requests[i].status = 200 THEN 1 ELSE 0
               /\ requests[i].status = 503 => requests[i].full
               /\ requests[i].status = 200 => ~requests[i].full
          ELSE requests[i].status = 0 /\ requests[i].pushed = 0
    /\ Cardinality(Accepted) = Len(updates) + received

\* the request that arrived first was answered last and met a channel filled
\* by the two that arrived after it
C27_FirstMetFullChannel ==
    /\ Len(requests) = 3
    /\ Answered = {1, 2, 3}
    /\ requests[1].status = 503
    /\ requests[2].status = 200
    /\ requests[3].status = 200
    /\ Len(updates) = 2

====
